---- MODULE Spec2Model ----
(***************************************************************************)
(* EncryptedPokerGame (contracts/EncryptedPokerGame.sol): the ledger of    *)
(* the guessing game.  One transaction is one step.  A transaction that    *)
(* reverts leaves the ledger as it was; what it was and how it ended is    *)
(* kept in `last`, together with the ledger as it stood before the call.   *)
(* `acl` is the access list of the FHE library: the pairs <<handle,        *)
(* account>> of the accounts allowed to read the ciphertext of a handle.   *)
(* `ui` is the PokerGame component of one connected wallet: its cached     *)
(* queries, its two mutations and the feedback it shows.                   *)
(*                                                                         *)
(* Amounts are counted in units of 1e14 wei (SUIT_REWARD, the smallest     *)
(* amount the contract names), so that they fit the integers of TLC.       *)
(***************************************************************************)
EXTENDS Integers, Sequences, FiniteSets, TLC

GAME_FEE == 10
SUIT_REWARD == 1
RANK_REWARD == 10
FULL_REWARD == 20

\* Bounds of the model.
MaxNonce == 2
MaxBalance == 30

\* address(0), address(this), the accounts that send transactions, those that play, and those
\* that call the owner's operations (each is the owner in some states and not
\* the owner in others).
ZeroAddress == "zero"
Self == "ledger"
Accounts == {"deployer", "alice", "bob"}
Players == {"alice", "bob"}
Owners == {"deployer", "alice"}

\* Inputs of the transactions.
Values == {0, GAME_FEE, FULL_REWARD}
Seeds == {0, 65537}
\* Guesses <<suit, rank>>: those that can meet a drawn card, the corners of the
\* valid range, and one step outside it on each side.
Guesses ==
  {<<1, 1>>, <<1, 2>>, <<2, 2>>, <<4, 13>>}
  \cup {<<0, 1>>, <<5, 1>>, <<1, 0>>, <<1, 14>>}
Deposits == {GAME_FEE, FULL_REWARD}

VARIABLES games, balance, owner, nonce, acl, last, ui

vars == <<games, balance, owner, nonce, acl, last, ui>>

\* The default value of a GameSession slot (what `delete` leaves).
EmptySession ==
  [encryptedSuit |-> 0, encryptedRank |-> 0, suit |-> 0, rank |-> 0, active |-> FALSE]

\* The ledger as one value, for the calls below.
Ledger ==
  [games |-> games, balance |-> balance, owner |-> owner, nonce |-> nonce, acl |-> acl]

NoRet == [encryptedSuit |-> 0, encryptedRank |-> 0]
NoInner == [op |-> "none", err |-> "", events |-> <<>>]
NoHook == [kind |-> "none", x |-> 0, y |-> 0, z |-> 0]

\* What the recipient of a value transfer does when it is handed control:
\* take the money, refuse it, or call back into the ledger (and then take it):
\* makeGuess(x, y), or startGame with the draw of seed x.
Hooks ==
  {[kind |-> "accept", x |-> 0, y |-> 0, z |-> 0], [kind |-> "reject", x |-> 0, y |-> 0, z |-> 0]}
  \cup {[kind |-> "makeGuess", x |-> 1, y |-> 1, z |-> 0]}
  \cup {[kind |-> "startGame", x |-> 0, y |-> 0, z |-> 0]}

\* A reverted call: nothing of it stays but the error.
Revert(st, e) ==
  [err |-> e, st |-> st, ret |-> NoRet, events |-> <<>>, paid |-> 0, inner |-> NoInner]

\* Mutant: the remainders are taken as they are, 0 included.
drawCardFromZero(randomSeed) ==
  [suitValue |-> randomSeed % 4, rankValue |-> (randomSeed \div 65536) % 13]

\* uint8((randomSeed % 4) + 1), uint8(((randomSeed >> 16) % 13) + 1)
drawCard(randomSeed) ==
  [suitValue |-> (randomSeed % 4) + 1, rankValue |-> ((randomSeed \div 65536) % 13) + 1]

\* FHE.asEuint8(value): the handle of a new ciphertext, never bytes32(0) and
\* never one handed out before; `made` counts the ciphertexts made so far.
\* The handle tells nothing of the value.
asEuint8(value, made) == made + 1

\* Mutant: a grant opens the ciphertext to every account.
allowEveryone(list, cipher, account) == list \cup {<<cipher, a>> : a \in Accounts \cup {Self}}

\* FHE.allow(cipher, account), FHE.allowThis(cipher): account, or the ledger
\* itself, may read the ciphertext from now on.
allow(list, cipher, account) == list \cup {<<cipher, account>>}

allowThis(list, cipher) == allow(list, cipher, Self)

\* The accounts that may read the ciphertext of a handle.
Readers(list, cipher) == {a \in Accounts \cup {Self} : <<cipher, a>> \in list}

\* Mutant: the handle is lost in the conversion.
toBytes32Zero(cipher) == 0

\* FHE.toBytes32(cipher): the handle itself, euint8 being a wrapped bytes32.
toBytes32(cipher) == cipher

\* Mutant: any payment of at least the fee is taken.
FeeAtLeast(value) == value >= GAME_FEE

FeeOk(value) == value = GAME_FEE

\* Mutants: the active flag is not looked at.
SessionActiveNever(session) == FALSE

SessionActiveAlways(session) == TRUE

SessionActive(session) == session.active

\* Mutant: the bankroll is not checked.
BankrollIgnored(bal) == TRUE

BankrollOk(bal) == bal >= FULL_REWARD

\* Mutant: the two handles are stored in each other's place.
NewSessionSwapped(suitCipher, rankCipher, suitValue, rankValue) ==
  [encryptedSuit |-> rankCipher, encryptedRank |-> suitCipher,
   suit |-> suitValue, rank |-> rankValue, active |-> TRUE]

NewSession(suitCipher, rankCipher, suitValue, rankValue) ==
  [encryptedSuit |-> suitCipher, encryptedRank |-> rankCipher,
   suit |-> suitValue, rank |-> rankValue, active |-> TRUE]

\* Mutant: the draw leaves the nonce as it is.
NextNonceStuck(n) == n

\* unchecked { _nonce++; } on a uint256: the wrap-around is beyond every
\* number of calls the model or a chain can make.
NextNonce(n) == n + 1

\* Mutant: the active session is looked at before the fee.
startGameChecksActiveFirst(value, session, bal) ==
  IF SessionActive(session) THEN "ActiveGameExists"
  ELSE IF ~FeeOk(value) THEN "InvalidFee"
  ELSE IF ~BankrollOk(bal) THEN "InsufficientBankroll"
  ELSE ""

\* The three checks of startGame in the order of the code, and the error of
\* the first that fails ("" when none does).
startGameChecks(value, session, bal) ==
  IF ~FeeOk(value) THEN "InvalidFee"
  ELSE IF SessionActive(session) THEN "ActiveGameExists"
  ELSE IF ~BankrollOk(bal) THEN "InsufficientBankroll"
  ELSE ""

\* startGame() payable, called by sender with msg.value = value.  The seed is
\* the keccak256 of the draw.  Two ciphertexts are made per draw, so 2 * nonce
\* have been made before this one.
startGame(st, sender, value, randomSeed) ==
  LET bal == st.balance + value
      card == drawCard(randomSeed)
      suitCipher == asEuint8(card.suitValue, 2 * st.nonce)
      rankCipher == asEuint8(card.rankValue, 2 * st.nonce + 1)
      session == NewSession(suitCipher, rankCipher, card.suitValue, card.rankValue)
      granted == allow(allow(allowThis(allowThis(st.acl, suitCipher), rankCipher),
                             suitCipher, sender), rankCipher, sender)
      ev == [name |-> "GameStarted", player |-> sender,
             encryptedSuit |-> toBytes32(suitCipher), encryptedRank |-> toBytes32(rankCipher)]
      failed == startGameChecks(value, st.games[sender], bal)
  IN IF failed # "" THEN Revert(st, failed)
     ELSE [err |-> "",
           st |-> [st EXCEPT !.games[sender] = session, !.balance = bal, !.nonce = NextNonce(@),
                             !.acl = granted],
           ret |-> [encryptedSuit |-> toBytes32(suitCipher), encryptedRank |-> toBytes32(rankCipher)],
           events |-> <<ev>>, paid |-> 0, inner |-> NoInner]

\* Mutant: the upper ends of the ranges are off by one.
ValidGuessWide(suitGuess, rankGuess) ==
  ~(suitGuess < 1 \/ suitGuess > 5 \/ rankGuess < 1 \/ rankGuess > 14)

ValidGuess(suitGuess, rankGuess) ==
  ~(suitGuess < 1 \/ suitGuess > 4 \/ rankGuess < 1 \/ rankGuess > 13)

\* Mutant: the rank is tested before the exact match.
RewardRankFirst(suitMatched, rankMatched) ==
  IF rankMatched THEN RANK_REWARD
  ELSE IF suitMatched /\ rankMatched THEN FULL_REWARD
  ELSE IF suitMatched THEN SUIT_REWARD
  ELSE 0

\* Mutant: a guess that matches nothing is paid like a matched suit.
RewardConsolation(suitMatched, rankMatched) ==
  IF suitMatched /\ rankMatched THEN FULL_REWARD
  ELSE IF rankMatched THEN RANK_REWARD
  ELSE SUIT_REWARD

\* Mutant: a matched suit alone is paid nothing.
RewardSuitUnpaid(suitMatched, rankMatched) ==
  IF suitMatched /\ rankMatched THEN FULL_REWARD
  ELSE IF rankMatched THEN RANK_REWARD
  ELSE 0

Reward(suitMatched, rankMatched) ==
  IF suitMatched /\ rankMatched THEN FULL_REWARD
  ELSE IF rankMatched THEN RANK_REWARD
  ELSE IF suitMatched THEN SUIT_REWARD
  ELSE 0

\* Mutants: the delete wipes every player's slot; the delete is left out.
ClearSessionAll(g, sender) == [p \in DOMAIN g |-> EmptySession]

ClearSessionSkipped(g, sender) == g

\* session.active = false; delete games[msg.sender];
ClearSession(g, sender) == [g EXCEPT ![sender] = EmptySession]

\* Mutant: the balance is not compared with the reward.
CanPayAlways(bal, reward) == TRUE

CanPay(bal, reward) == ~(bal < reward)

\* Mutant: a revert keeps what the call had written so far.
UndoNothing(before, now) == now

\* revert: the storage is again what it was before the call.
Undo(before, now) == before

RECURSIVE makeGuess(_, _, _, _, _)

\* Mutant: the transfer succeeds and the amount never leaves the ledger.
callKeepsAmount(st, recipient, amount, hook) ==
  [success |-> TRUE, st |-> st, inner |-> NoInner]

\* recipient.call{value: amount}(""): the amount leaves the ledger, then the
\* recipient runs.  A call it makes back into the ledger runs to its end (its
\* own transfer, if any, is accepted); if that call reverts the recipient
\* catches it and still takes the money.
call(st, recipient, amount, hook) ==
  LET sent == [st EXCEPT !.balance = @ - amount]
      again == IF hook.kind = "makeGuess"
                 THEN makeGuess(sent, recipient, hook.x, hook.y, [hook EXCEPT !.kind = "accept"])
                 ELSE startGame(sent, recipient, GAME_FEE, hook.x)
  IN IF hook.kind = "reject" THEN [success |-> FALSE, st |-> st, inner |-> NoInner]
     ELSE IF hook.kind = "accept" THEN [success |-> TRUE, st |-> sent, inner |-> NoInner]
     ELSE [success |-> TRUE, st |-> again.st,
           inner |-> [op |-> hook.kind, err |-> again.err, events |-> again.events]]

\* makeGuess(uint8 suitGuess, uint8 rankGuess), called by sender; hook is what
\* sender does when the reward reaches it.
makeGuess(st, sender, suitGuess, rankGuess, hook) ==
  LET session == st.games[sender]
      suitMatched == session.suit = suitGuess
      rankMatched == session.rank = rankGuess
      reward == Reward(suitMatched, rankMatched)
      cleared == [st EXCEPT !.games = ClearSession(@, sender)]
      ev == [name |-> "GuessEvaluated", player |-> sender, suitMatched |-> suitMatched,
             rankMatched |-> rankMatched, reward |-> reward]
      t == call(cleared, sender, reward, hook)
  IN IF ~ValidGuess(suitGuess, rankGuess) THEN Revert(st, "InvalidGuess")
     ELSE IF ~SessionActive(session) THEN Revert(st, "NoActiveGame")
     ELSE IF reward > 0
       THEN IF ~CanPay(cleared.balance, reward)
              THEN Revert(Undo(st, cleared), "InsufficientBankroll")
            ELSE IF ~t.success THEN Revert(Undo(st, cleared), "TransferFailed")
            ELSE [err |-> "", st |-> t.st, ret |-> NoRet,
                  events |-> t.inner.events \o <<ev>>, paid |-> reward, inner |-> t.inner]
       ELSE [err |-> "", st |-> cleared, ret |-> NoRet, events |-> <<ev>>,
             paid |-> 0, inner |-> NoInner]

\* Mutant: the view answers with the two handles in each other's place.
getActiveGameSwapped(st, player) ==
  LET session == st.games[player]
  IN IF session.active
       THEN [isActive |-> TRUE, encryptedSuit |-> toBytes32(session.encryptedRank),
             encryptedRank |-> toBytes32(session.encryptedSuit)]
       ELSE [isActive |-> FALSE, encryptedSuit |-> 0, encryptedRank |-> 0]

\* getActiveGame(player), a view.
getActiveGame(st, player) ==
  LET session == st.games[player]
  IN IF session.active
       THEN [isActive |-> TRUE, encryptedSuit |-> toBytes32(session.encryptedSuit),
             encryptedRank |-> toBytes32(session.encryptedRank)]
       ELSE [isActive |-> FALSE, encryptedSuit |-> 0, encryptedRank |-> 0]

\* A view called from outside: it returns its value and writes nothing.
View(st, value) ==
  [err |-> "", st |-> st, ret |-> value, events |-> <<>>, paid |-> 0, inner |-> NoInner]

\* houseBalance(), a view.
houseBalance(st) == st.balance

\* Mutant: the modifier lets every caller through.
IsOwnerAnyone(st, sender) == TRUE

IsOwner(st, sender) == sender = st.owner

\* withdraw(recipient, amount), onlyOwner.
withdraw(st, sender, recipient, amount, hook) ==
  LET t == call(st, recipient, amount, hook)
  IN IF ~IsOwner(st, sender) THEN Revert(st, "NotOwner")
     ELSE IF recipient = ZeroAddress THEN Revert(st, "InvalidRecipient")
     ELSE IF amount > st.balance THEN Revert(st, "AmountExceedsBalance")
     ELSE IF ~t.success THEN Revert(st, "TransferFailed")
     ELSE [err |-> "", st |-> t.st, ret |-> NoRet, events |-> t.inner.events,
           paid |-> amount, inner |-> t.inner]

\* Mutant: address(0) is taken as an owner.
ValidOwnerAny(newOwner) == TRUE

ValidOwner(newOwner) == ~(newOwner = ZeroAddress)

\* transferOwnership(newOwner), onlyOwner.
transferOwnership(st, sender, newOwner) ==
  IF ~IsOwner(st, sender) THEN Revert(st, "NotOwner")
  ELSE IF ~ValidOwner(newOwner) THEN Revert(st, "InvalidOwner")
  ELSE [err |-> "", st |-> [st EXCEPT !.owner = newOwner], ret |-> NoRet,
        events |-> <<[name |-> "OwnershipTransferred", previousOwner |-> st.owner,
                      newOwner |-> newOwner]>>,
        paid |-> 0, inner |-> NoInner]

\* Mutant: a plain deposit is not credited.
receiveNothing(st, value) ==
  [err |-> "", st |-> st, ret |-> NoRet, events |-> <<>>, paid |-> 0, inner |-> NoInner]

\* receive() external payable {}
receive(st, value) ==
  [err |-> "", st |-> [st EXCEPT !.balance = @ + value], ret |-> NoRet, events |-> <<>>,
   paid |-> 0, inner |-> NoInner]

(***************************************************************************)
(* The client, components/PokerGame.tsx, for one connected wallet.  A      *)
(* query holds what it last read from the ledger; a mutation goes from the *)
(* click through the sending of its transaction and the mining of it to    *)
(* the end of its mutation function and its onSuccess or onError.          *)
(***************************************************************************)
\* useAccount().address
Player == "alice"

\* The data of a query that has not answered yet.
Undefined == -1

\* The errors of the ledger, which the ABI of the client is generated from.
ErrorNames ==
  {"ActiveGameExists", "InvalidFee", "InvalidGuess", "NoActiveGame", "TransferFailed",
   "InsufficientBankroll", "AmountExceedsBalance", "NotOwner", "InvalidOwner",
   "InvalidRecipient"}

\* Revert data: a hex string that starts with the selector of the error it
\* names; a selector is told from its name only through an interface.
NoData == <<"", "">>
Selector(name) == <<"0x", name>>

\* An error as the mutation's onError receives it.  kind is what `typeof` and
\* `instanceof Error` tell of it (none: null or undefined); text is the string
\* itself or Error.message; shortMessage is "" when the error has none.  A
\* string has no properties, so its three data are NoData.
NoError ==
  [kind |-> "none", text |-> "", shortMessage |-> "",
   data |-> NoData, errorData |-> NoData, infoErrorData |-> NoData]

\* throw new Error(text)
Thrown(text) == [NoError EXCEPT !.kind = "Error", !.text = text]

\* What ethers throws when the call would revert (estimateGas): the revert data
\* is in the error.  When the mined transaction reverted (tx.wait): it is not.
RevertedCall(name) ==
  [NoError EXCEPT !.kind = "Error", !.text = "execution reverted (unknown custom error)",
                  !.shortMessage = "execution reverted (unknown custom error)",
                  !.data = Selector(name)]

RevertedTransaction ==
  [NoError EXCEPT !.kind = "Error", !.text = "transaction execution reverted",
                  !.shortMessage = "transaction execution reverted"]

\* iface.parseError(source): the name of the error, "" (null) when the
\* interface has no error with that selector.
parseError(iface, source) == IF source[2] \in iface THEN source[2] ELSE ""

messageMap ==
  [name \in ErrorNames |->
     CASE name = "ActiveGameExists" ->
            "You already have an active game. Finish it before starting another."
       [] name = "InvalidFee" -> "The transaction did not include the required game fee."
       [] name = "InvalidGuess" -> "Guesses must use suits 1-4 and ranks 1-13."
       [] name = "NoActiveGame" -> "No active game found for this wallet."
       [] name = "InsufficientBankroll" ->
            "The house balance is too low to cover the full reward. Fund the contract before starting."
       [] name = "TransferFailed" -> "A reward transfer failed. Please try again."
       [] name = "AmountExceedsBalance" -> "Requested withdrawal exceeds the available balance."
       [] name = "NotOwner" -> "Only the contract owner can perform this action."
       [] name = "InvalidOwner" -> "New owner address cannot be zero."
       [] name = "InvalidRecipient" -> "Recipient address cannot be zero."]

\* lookupCustomError(): the first of error.data, error.error.data and
\* error.info.error.data that is a hex string the interface can parse.
lookupCustomError(error, iface) ==
  LET dataSources == <<error.data, error.errorData, error.infoErrorData>>
      parsed == {i \in 1..3 : dataSources[i][1] = "0x"
                              /\ parseError(iface, dataSources[i]) # ""}
      first == CHOOSE i \in parsed : \A j \in parsed : i <= j
      name == parseError(iface, dataSources[first])
  IN IF iface = {} \/ parsed = {} THEN ""
     ELSE IF name \in DOMAIN messageMap THEN messageMap[name] ELSE name

\* formatError(error, iface) of the component that knows the interface.
formatError(error, iface) ==
  IF error.kind = "none" \/ (error.kind = "string" /\ error.text = "") THEN "Unknown error"
  ELSE IF lookupCustomError(error, iface) # "" THEN lookupCustomError(error, iface)
  ELSE IF error.kind = "string" THEN error.text
  ELSE IF error.kind = "Error" THEN error.text
  ELSE IF error.kind = "object" /\ error.shortMessage # "" THEN error.shortMessage
  ELSE "Unexpected error"

\* formatError(error) of game/src/components/PokerGame.tsx, which has no
\* interface to look the error up in.
formatErrorGame(error) ==
  IF error.kind = "none" \/ (error.kind = "string" /\ error.text = "") THEN "Unknown error"
  ELSE IF error.kind = "string" THEN error.text
  ELSE IF error.kind = "Error" THEN error.text
  ELSE IF error.kind = "object" /\ error.shortMessage # "" THEN error.shortMessage
  ELSE "Unexpected error"

\* A mutation of react-query: idle, pending from mutate() to the end of its
\* mutation function, then success or error.  While pending it is at one stage:
\* called (mutate() ran), sent (the transaction is with the network), mined
\* (the ledger has run it; ok and logs are its receipt).
Idle ==
  [status |-> "idle", stage |-> "none", suit |-> 0, rank |-> 0, ok |-> FALSE, logs |-> <<>>,
   sent |-> 0, error |-> NoError]

NoFeedback == [type |-> "none", message |-> ""]

\* lastHandles when it is null.
NoHandles == [suit |-> 0, rank |-> 0]

\* The component when it is first rendered: the wallet is connected, no query
\* has answered, no mutation has run.  stale tells of an invalidated query that
\* has not been read again.  sent, in a mutation, counts the transactions it
\* has sent since the click that called it.
FirstRender ==
  [isConnected |-> TRUE, gameTerms |-> FALSE, houseBalance |-> Undefined,
   activeGame |-> FALSE, stale |-> {},
   startGameMutation |-> Idle, guessMutation |-> Idle,
   lastHandles |-> NoHandles, feedback |-> NoFeedback]

isPending(mutation) == mutation.status = "pending"

\* Mutant: the start button does not look at the cached balance.
isBankrollInsufficientNever(u) == FALSE

\* gameTerms?.gameFee, gameTerms?.fullReward: the constants read from the
\* ledger (the defaults stand in only while gameTerms is missing, and then
\* hasTermsData keeps the start button disabled).
gameFee(u) == GAME_FEE
fullReward(u) == FULL_REWARD
currentHouseBalance(u) == IF u.houseBalance = Undefined THEN 0 ELSE u.houseBalance
projectedBalance(u) == currentHouseBalance(u) + gameFee(u)
canCoverFullReward(u) == projectedBalance(u) >= fullReward(u)
hasTermsData(u) == u.gameTerms
hasBalanceData(u) == u.houseBalance # Undefined

isBankrollInsufficient(u) == hasBalanceData(u) /\ hasTermsData(u) /\ ~canCoverFullReward(u)

isStartDisabled(u) ==
  \/ ~u.isConnected
  \/ u.activeGame
  \/ isPending(u.startGameMutation)
  \/ isPending(u.guessMutation)
  \/ ~hasTermsData(u)
  \/ ~hasBalanceData(u)
  \/ isBankrollInsufficient(u)

isGuessDisabled(u) == ~u.isConnected \/ ~u.activeGame \/ isPending(u.guessMutation)

\* contractInterface.parseLog(log) in the loop over receipt.logs: the logs the
\* interface of the client can read (the ABI is copied into the client by hand
\* and may not be the one of the deployed ledger).
parseLogs(logs, readable) == IF readable THEN logs ELSE <<>>

\* The first log of the receipt with the given event name, 0 if there is none.
FirstLog(logs, name) ==
  LET found == {i \in 1..Len(logs) : logs[i].name = name}
  IN IF found = {} THEN 0 ELSE CHOOSE i \in found : \A j \in found : i <= j

\* queryClient.invalidateQueries of onSuccess: active-game and house-balance.
invalidateQueries(u) == [u EXCEPT !.stale = {"active-game", "house-balance"}]

\* Mutant: the mutation function runs again after it threw.
FailedRetries(mutation, error) == [mutation EXCEPT !.stage = "called", !.error = error]

\* The mutation function threw and the mutation is not retried: it ends in error.
Failed(mutation, error) ==
  [mutation EXCEPT !.status = "error", !.stage = "none", !.error = error]

\* onError: the feedback is the formatted error.
onError(u, error) ==
  [u EXCEPT !.feedback = [type |-> "error", message |-> formatError(error, ErrorNames)]]

\* startGameMutation.onSuccess(handles)
startOnSuccess(u, handles) ==
  [invalidateQueries(u) EXCEPT
     !.lastHandles = handles,
     !.feedback = [type |-> "success",
                   message |-> "A fresh encrypted card is ready. Time to guess!"]]

\* guessMutation.onSuccess(result)
guessOnSuccess(u, result) ==
  [invalidateQueries(u) EXCEPT
     !.feedback =
       IF result.reward > 0 THEN [type |-> "success", message |-> "Victory!"]
       ELSE IF result.suitMatched \/ result.rankMatched
         THEN [type |-> "success", message |-> "Close call!"]
       ELSE [type |-> "error", message |-> "No matches. Try another combination."]]

\* The end of startGameMutation's mutation function (tx.wait() and the loop
\* over the logs) and the callback that follows: a reverted transaction throws;
\* a confirmed one returns the handles of its GameStarted log, or null.
startSettled(u, readable) ==
  LET m == u.startGameMutation
      logs == parseLogs(m.logs, readable)
      i == FirstLog(logs, "GameStarted")
      handles == IF i = 0 THEN NoHandles
                 ELSE [suit |-> logs[i].encryptedSuit, rank |-> logs[i].encryptedRank]
  IN IF ~m.ok
       THEN [onError(u, RevertedTransaction) EXCEPT
               !.startGameMutation = Failed(m, RevertedTransaction)]
       ELSE [startOnSuccess(u, handles) EXCEPT
               !.startGameMutation = [m EXCEPT !.status = "success", !.stage = "none"]]

\* The end of guessMutation's mutation function and the callback that follows:
\* a reverted transaction throws; a confirmed one returns what its
\* GuessEvaluated log says, and throws when it finds none.
guessSettled(u, readable) ==
  LET m == u.guessMutation
      logs == parseLogs(m.logs, readable)
      i == FirstLog(logs, "GuessEvaluated")
  IN IF ~m.ok
       THEN [onError(u, RevertedTransaction) EXCEPT
               !.guessMutation = Failed(m, RevertedTransaction)]
     ELSE IF i = 0
       THEN [onError(u, Thrown("Unable to read guess result from transaction logs."))
               EXCEPT !.guessMutation =
                        Failed(m, Thrown("Unable to read guess result from transaction logs."))]
       ELSE [guessOnSuccess(u, logs[i]) EXCEPT
               !.guessMutation = [m EXCEPT !.status = "success", !.stage = "none"]]

\* constructor(): the deployer owns the ledger; no session, no money, nonce 0.
InitLedger ==
  /\ games = [p \in Accounts |-> EmptySession]
  /\ balance = 0
  /\ owner = "deployer"
  /\ nonce = 0
  /\ acl = {}
  /\ last = [op |-> "constructor", sender |-> "deployer", value |-> 0, a |-> 0, b |-> 0,
             hook |-> NoHook, err |-> "", ret |-> NoRet,
             events |-> <<[name |-> "OwnershipTransferred", previousOwner |-> ZeroAddress,
                           newOwner |-> "deployer"]>>,
             paid |-> 0, inner |-> NoInner,
             pre |-> [games |-> [p \in Accounts |-> EmptySession], balance |-> 0,
                      owner |-> ZeroAddress, nonce |-> 0, acl |-> {}]]

Init == InitLedger /\ ui = FirstRender

\* The transaction ends: the ledger is what the call left, `last` tells of it.
Commit(r, op, sender, value, a, b, hook) ==
  /\ r.st.nonce <= MaxNonce
  /\ r.st.balance <= MaxBalance
  /\ games' = r.st.games
  /\ balance' = r.st.balance
  /\ owner' = r.st.owner
  /\ nonce' = r.st.nonce
  /\ acl' = r.st.acl
  /\ last' = [op |-> op, sender |-> sender, value |-> value, a |-> a, b |-> b,
              hook |-> hook,
              err |-> r.err, ret |-> r.ret, events |-> r.events, paid |-> r.paid,
              inner |-> r.inner, pre |-> Ledger]

\* The inputs that decide nothing in a call that fails before using them are not
\* enumerated: a reverted startGame has drawn no card, a call that transfers
\* nothing runs no recipient.
Accept == [kind |-> "accept", x |-> 0, y |-> 0, z |-> 0]

Draws(st, sender, value) ==
  IF startGame(st, sender, value, 0).err = "" THEN Seeds ELSE {0}

HooksOf(r, hooks) == IF r.paid > 0 THEN hooks ELSE {Accept}

StartGame ==
  \E sender \in Players, value \in Values :
    \E seed \in Draws(Ledger, sender, value) :
      Commit(startGame(Ledger, sender, value, seed),
             "startGame", sender, value, 0, 0, NoHook)
      /\ UNCHANGED ui

MakeGuess ==
  \E sender \in Players, g \in Guesses :
    \E hook \in HooksOf(makeGuess(Ledger, sender, g[1], g[2], Accept), Hooks) :
      Commit(makeGuess(Ledger, sender, g[1], g[2], hook),
             "makeGuess", sender, 0, g[1], g[2], hook)
      /\ UNCHANGED ui

Withdraw ==
  \E sender \in Owners, recipient \in {ZeroAddress, "alice"},
     amount \in {GAME_FEE, balance + 1} :
    \E hook \in HooksOf(withdraw(Ledger, sender, recipient, amount, Accept), Hooks) :
      Commit(withdraw(Ledger, sender, recipient, amount, hook),
             "withdraw", sender, 0, recipient, amount, hook)
      /\ UNCHANGED ui

TransferOwnership ==
  \E sender \in Owners, newOwner \in {ZeroAddress, "alice"} :
    Commit(transferOwnership(Ledger, sender, newOwner),
           "transferOwnership", sender, 0, newOwner, 0, NoHook)
    /\ UNCHANGED ui

Receive ==
  \E value \in Deposits :
    Commit(receive(Ledger, value), "receive", "deployer", value, 0, 0, NoHook)
    /\ UNCHANGED ui

GetActiveGame ==
  \E player \in Accounts :
    Commit(View(Ledger, getActiveGame(Ledger, player)),
           "getActiveGame", "bob", 0, player, 0, NoHook)
    /\ UNCHANGED ui

Next ==
  StartGame \/ MakeGuess \/ Withdraw \/ TransferOwnership \/ Receive \/ GetActiveGame

Spec == Init /\ [][Next]_vars

(***************************************************************************)
(* The reward rule over every card and every valid guess: one player, a    *)
(* ledger funded with FULL_REWARD, every seed that draws a card (with one  *)
(* more value on each side, so that both remainders wrap), every guess of  *)
(* the valid range.                                                        *)
(***************************************************************************)
AllSeeds == {lo + 65536 * hi : lo \in 0..4, hi \in 0..13}
AllGuesses == (1..4) \X (1..13)

\* The ledger after the constructor and receive() with FULL_REWARD.
InitCards ==
  /\ games = [p \in Accounts |-> EmptySession]
  /\ balance = FULL_REWARD
  /\ owner = "deployer"
  /\ nonce = 0
  /\ acl = {}
  /\ ui = FirstRender
  /\ last = [op |-> "receive", sender |-> "deployer", value |-> FULL_REWARD, a |-> 0, b |-> 0,
             hook |-> NoHook, err |-> "", ret |-> NoRet, events |-> <<>>,
             paid |-> 0, inner |-> NoInner,
             pre |-> [games |-> [p \in Accounts |-> EmptySession], balance |-> 0,
                      owner |-> "deployer", nonce |-> 0, acl |-> {}]]

StartGameCards ==
  \E seed \in AllSeeds :
    Commit(startGame(Ledger, "alice", GAME_FEE, seed), "startGame", "alice", GAME_FEE, 0, 0, NoHook)
    /\ UNCHANGED ui

MakeGuessCards ==
  \E g \in AllGuesses :
    Commit(makeGuess(Ledger, "alice", g[1], g[2], Accept),
           "makeGuess", "alice", 0, g[1], g[2], Accept)
    /\ UNCHANGED ui

NextCards == StartGameCards \/ MakeGuessCards

SpecCards == InitCards /\ [][NextCards]_vars

(***************************************************************************)
(* The client and the ledger together: the component of the connected      *)
(* player, the ledger that mines what the component sends, deposits, and   *)
(* the same wallet playing from somewhere else.                            *)
(***************************************************************************)
\* The guesses the player picks from SUIT_OPTIONS and RANK_OPTIONS.
Picks == {<<1, 1>>, <<2, 2>>}

UnchangedLedger == UNCHANGED <<games, balance, owner, nonce, acl, last>>

\* The queries answer: game-terms, house-balance, active-game (at first, after
\* an invalidation, or whenever react-query reads them again).
FetchGameTerms ==
  /\ ~ui.gameTerms
  /\ ui' = [ui EXCEPT !.gameTerms = TRUE]
  /\ UnchangedLedger

FetchHouseBalance ==
  /\ ui' = [ui EXCEPT !.houseBalance = houseBalance(Ledger), !.stale = @ \ {"house-balance"}]
  /\ UnchangedLedger

FetchActiveGame ==
  /\ ui' = [ui EXCEPT !.activeGame = getActiveGame(Ledger, Player).isActive,
                      !.stale = @ \ {"active-game"}]
  /\ UnchangedLedger

\* onClick={() => startGameMutation.mutate()} on a button that is not disabled;
\* the mutation function runs up to `contract.startGame`.
ClickStart ==
  /\ ~isStartDisabled(ui)
  /\ ui' = [ui EXCEPT !.startGameMutation = [Idle EXCEPT !.status = "pending", !.stage = "called"]]
  /\ UnchangedLedger

\* contract.startGame({ value }): the call is tried against the ledger as it
\* is; if it would revert nothing is sent and the error carries the revert
\* data, otherwise the transaction is sent.
SendStart ==
  /\ ui.startGameMutation.stage = "called"
  /\ LET tried == startGame(Ledger, Player, gameFee(ui), 0)
     IN ui' = IF tried.err # ""
                THEN [onError(ui, RevertedCall(tried.err)) EXCEPT
                        !.startGameMutation = Failed(@, RevertedCall(tried.err))]
                ELSE [ui EXCEPT !.startGameMutation.stage = "sent",
                                !.startGameMutation.sent = @ + 1]
  /\ UnchangedLedger

\* The ledger runs the transaction; tx.wait() has its receipt.
MineStart ==
  /\ ui.startGameMutation.stage = "sent"
  /\ LET r == startGame(Ledger, Player, gameFee(ui), 0)
     IN /\ Commit(r, "startGame", Player, gameFee(ui), 0, 0, NoHook)
        /\ ui' = [ui EXCEPT !.startGameMutation.stage = "mined",
                            !.startGameMutation.ok = (r.err = ""),
                            !.startGameMutation.logs = r.events]

SettleStart ==
  /\ ui.startGameMutation.stage = "mined"
  /\ \E readable \in BOOLEAN : ui' = startSettled(ui, readable)
  /\ UnchangedLedger

\* onClick={() => guessMutation.mutate({ suit, rank })} on a button that is not
\* disabled (so isConnected and activeGame hold in the mutation function).
ClickGuessOf(picks) ==
  /\ ~isGuessDisabled(ui)
  /\ \E g \in picks :
       ui' = [ui EXCEPT !.guessMutation =
                [Idle EXCEPT !.status = "pending", !.stage = "called",
                             !.suit = g[1], !.rank = g[2]]]
  /\ UnchangedLedger

ClickGuess == ClickGuessOf(Picks)

SendGuess ==
  /\ ui.guessMutation.stage = "called"
  /\ LET tried == makeGuess(Ledger, Player, ui.guessMutation.suit, ui.guessMutation.rank, Accept)
     IN ui' = IF tried.err # ""
                THEN [onError(ui, RevertedCall(tried.err)) EXCEPT
                        !.guessMutation = Failed(@, RevertedCall(tried.err))]
                ELSE [ui EXCEPT !.guessMutation.stage = "sent",
                                !.guessMutation.sent = @ + 1]
  /\ UnchangedLedger

MineGuess ==
  /\ ui.guessMutation.stage = "sent"
  /\ LET r == makeGuess(Ledger, Player, ui.guessMutation.suit, ui.guessMutation.rank, Accept)
     IN /\ Commit(r, "makeGuess", Player, 0, ui.guessMutation.suit, ui.guessMutation.rank,
                  Accept)
        /\ ui' = [ui EXCEPT !.guessMutation.stage = "mined",
                            !.guessMutation.ok = (r.err = ""),
                            !.guessMutation.logs = r.events]

SettleGuess ==
  /\ ui.guessMutation.stage = "mined"
  /\ \E readable \in BOOLEAN : ui' = guessSettled(ui, readable)
  /\ UnchangedLedger

\* The owner funds the house with one full reward.
Fund ==
  /\ Commit(receive(Ledger, FULL_REWARD), "receive", "deployer", FULL_REWARD,
            0, 0, NoHook)
  /\ UNCHANGED ui

\* The wallet of the player used from another tab or device.
ElsewhereStart ==
  /\ Commit(startGame(Ledger, Player, GAME_FEE, 0), "startGame", Player, GAME_FEE, 0, 0, NoHook)
  /\ UNCHANGED ui

ElsewhereGuess ==
  /\ \E g \in Picks :
       Commit(makeGuess(Ledger, Player, g[1], g[2], Accept),
              "makeGuess", Player, 0, g[1], g[2], Accept)
  /\ UNCHANGED ui

NextClient ==
  \/ FetchGameTerms \/ FetchHouseBalance \/ FetchActiveGame
  \/ ClickStart \/ SendStart \/ MineStart \/ SettleStart
  \/ ClickGuess \/ SendGuess \/ MineGuess \/ SettleGuess
  \/ Fund \/ ElsewhereStart \/ ElsewhereGuess

SpecClient == Init /\ [][NextClient]_vars

(***************************************************************************)
(* The result of a guess as the client shows it: one wallet playing        *)
(* through the component on a funded ledger, with guesses that match the   *)
(* card in both, in one and in none of suit and rank.                      *)
(***************************************************************************)
AllPicks == {<<1, 1>>, <<1, 2>>, <<2, 1>>, <<2, 2>>}

NextResult ==
  \/ FetchGameTerms \/ FetchHouseBalance \/ FetchActiveGame
  \/ ClickStart \/ SendStart \/ MineStart \/ SettleStart
  \/ ClickGuessOf(AllPicks) \/ SendGuess \/ MineGuess \/ SettleGuess

SpecResult == InitCards /\ [][NextResult]_vars

(***************************************************************************)
(* The feedback for an error: a mutation function that rejects with any of *)
(* a set of error payloads.                                                *)
(***************************************************************************)
\* What an error may carry in one of its data properties: nothing, a string
\* that is not hex, the revert data of each error of the ledger, and revert
\* data the interface does not know.
ErrorData ==
  {NoData, <<"text", "InvalidFee">>} \cup {Selector(name) : name \in ErrorNames \cup {"Panic"}}

Errors ==
  {NoError, [NoError EXCEPT !.kind = "string"],
   [NoError EXCEPT !.kind = "string", !.text = "user rejected"]}
  \cup {[kind |-> kind, text |-> IF kind = "Error" THEN "execution reverted" ELSE "",
         shortMessage |-> short, data |-> data, errorData |-> errorData,
         infoErrorData |-> infoErrorData] :
          kind \in {"Error", "object"}, short \in {"", "missing revert data"},
          data \in ErrorData, errorData \in {NoData, Selector("NotOwner")},
          infoErrorData \in {NoData, Selector("InvalidGuess")}}

\* A mutation whose mutation function is about to reject with error.
Rejecting(error) ==
  [Idle EXCEPT !.status = "pending", !.stage = "rejecting", !.error = error]

InitErrors ==
  /\ InitLedger
  /\ \E error \in Errors :
       \/ ui = [FirstRender EXCEPT !.startGameMutation = Rejecting(error)]
       \/ ui = [FirstRender EXCEPT !.guessMutation = Rejecting(error)]

RejectStart ==
  /\ ui.startGameMutation.stage = "rejecting"
  /\ ui' = [onError(ui, ui.startGameMutation.error) EXCEPT
              !.startGameMutation = Failed(@, ui.startGameMutation.error)]
  /\ UnchangedLedger

RejectGuess ==
  /\ ui.guessMutation.stage = "rejecting"
  /\ ui' = [onError(ui, ui.guessMutation.error) EXCEPT
              !.guessMutation = Failed(@, ui.guessMutation.error)]
  /\ UnchangedLedger

NextErrors == RejectStart \/ RejectGuess

SpecErrors == InitErrors /\ [][NextErrors]_vars

(***************************************************************************)
(* Properties.  `last` is the transaction that led to the state, last.pre  *)
(* the ledger before it.                                                   *)
(***************************************************************************)
Succeeded(op) == last.op = op /\ last.err = ""

\* A failed transaction left the whole ledger as it was.
Untouched ==
  /\ games = last.pre.games
  /\ balance = last.pre.balance
  /\ owner = last.pre.owner
  /\ nonce = last.pre.nonce
  /\ acl = last.pre.acl

InRange(suitGuess, rankGuess) == suitGuess \in 1..4 /\ rankGuess \in 1..13

\* The session of the caller of the last transaction, before it.
PreSession == last.pre.games[last.sender]

\* The caller called back into startGame while it was paid, and that call went through.
ReenteredStart == last.inner.op = "startGame" /\ last.inner.err = ""

\* C1: startGame with the correct fee by a player whose session is active fails
\* with ActiveGameExists and leaves every session and the balance as they were.
C1_StartWhileActiveFails ==
  (last.op = "startGame" /\ last.value = GAME_FEE /\ PreSession.active)
    => (last.err = "ActiveGameExists" /\ Untouched /\ games[last.sender] = PreSession)

C1_Witness ==
  /\ last.op = "startGame" /\ last.value = GAME_FEE /\ PreSession.active
  /\ last.err = "ActiveGameExists"
  /\ balance + GAME_FEE >= FULL_REWARD

\* C2: for every stored card and every valid guess a resolved makeGuess pays
\* FULL_REWARD when suit and rank match, RANK_REWARD when only the rank does,
\* SUIT_REWARD when only the suit does, 0 when neither does; the four cases
\* exclude one another and leave no fifth.
C2_RewardTiers ==
  Succeeded("makeGuess") =>
    LET suitMatched == PreSession.suit = last.a
        rankMatched == PreSession.rank = last.b
        reward == last.events[Len(last.events)].reward
    IN /\ PreSession.suit \in 1..4 /\ PreSession.rank \in 1..13
       /\ last.paid = reward
       /\ reward = FULL_REWARD <=> (suitMatched /\ rankMatched)
       /\ reward = RANK_REWARD <=> (~suitMatched /\ rankMatched)
       /\ reward = SUIT_REWARD <=> (suitMatched /\ ~rankMatched)
       /\ reward = 0 <=> (~suitMatched /\ ~rankMatched)

\* The card and the guess are both at the top of their ranges, and match.
C2_Witness ==
  /\ Succeeded("makeGuess")
  /\ PreSession.suit = 4 /\ PreSession.rank = 13 /\ last.a = 4 /\ last.b = 13
  /\ last.paid = FULL_REWARD

\* C3 as stated: every successful makeGuess leaves the balance lower by exactly
\* the reward it paid to the caller, and the caller's session inactive; an exact
\* guess pays FULL_REWARD.
C3_BalanceDropsByReward ==
  Succeeded("makeGuess") =>
    /\ balance = last.pre.balance - last.paid
    /\ last.paid = last.events[Len(last.events)].reward
    /\ ~games[last.sender].active
    /\ (PreSession.suit = last.a /\ PreSession.rank = last.b) => last.paid = FULL_REWARD

\* What remains of C3 when the caller did not start a game while it was paid.
C3_WithoutReentry ==
  (Succeeded("makeGuess") /\ ~ReenteredStart) => C3_BalanceDropsByReward

\* C4: a makeGuess on an active session with both guesses in range and both
\* wrong succeeds, transfers nothing, leaves the balance as it was and the
\* caller's session inactive.
C4_LosingGuess ==
  (last.op = "makeGuess" /\ InRange(last.a, last.b) /\ PreSession.active
     /\ PreSession.suit # last.a /\ PreSession.rank # last.b)
    => /\ last.err = ""
       /\ last.paid = 0
       /\ balance = last.pre.balance
       /\ ~games[last.sender].active
       /\ \A p \in Accounts \ {last.sender} : games[p] = last.pre.games[p]

C4_Witness ==
  /\ Succeeded("makeGuess") /\ PreSession.active
  /\ PreSession.suit # last.a /\ PreSession.rank # last.b
  /\ balance = last.pre.balance /\ balance > 0

\* C5 as stated: startGame with the correct fee and no active session fails
\* with InsufficientBankroll whenever the balance before the call is below
\* FULL_REWARD.
C5_FailsBelowFullReward ==
  (last.op = "startGame" /\ last.value = GAME_FEE /\ ~PreSession.active
     /\ last.pre.balance < FULL_REWARD)
    => (last.err = "InsufficientBankroll" /\ Untouched)

\* C5 amended: startGame with the correct fee and no active session fails with
\* InsufficientBankroll whenever the balance before the call plus the fee of
\* the call is below FULL_REWARD, and then no session is created and no fee is
\* kept; so does a startGame made by a player while it is paid its reward.
C5_FailsBelowFullRewardWithFee ==
  /\ (last.op = "startGame" /\ last.value = GAME_FEE /\ ~PreSession.active
        /\ last.pre.balance + GAME_FEE < FULL_REWARD)
       => (last.err = "InsufficientBankroll" /\ Untouched /\ ~games[last.sender].active)
  /\ (Succeeded("makeGuess") /\ last.inner.op = "startGame"
        /\ last.pre.balance - last.paid + GAME_FEE < FULL_REWARD)
       => (last.inner.err = "InsufficientBankroll" /\ ~games[last.sender].active
           /\ balance = last.pre.balance - last.paid /\ nonce = last.pre.nonce)

C5_Witness ==
  /\ last.op = "startGame" /\ last.value = GAME_FEE /\ ~PreSession.active
  /\ last.pre.balance + GAME_FEE < FULL_REWARD /\ last.pre.balance > 0
  /\ last.err = "InsufficientBankroll"

\* C6: makeGuess with the suit outside 1..4 or the rank outside 1..13 fails with
\* InvalidGuess, with or without an active session, and changes nothing.
C6_InvalidGuess ==
  (last.op = "makeGuess" /\ (last.a \notin 1..4 \/ last.b \notin 1..13))
    => (last.err = "InvalidGuess" /\ Untouched /\ last.paid = 0)

\* The caller has an active session, the suit is one above the range.
C6_Witness ==
  /\ last.op = "makeGuess" /\ last.a = 5 /\ last.b \in 1..13
  /\ last.err = "InvalidGuess"
  /\ PreSession.active /\ games[last.sender] = PreSession

\* C7: makeGuess with a guess in range by a player without an active session
\* fails with NoActiveGame, pays nothing and changes nothing; a guess made by the
\* caller while it is paid its reward fails the same way; and when a makeGuess
\* has succeeded without the caller starting a game meanwhile, the caller's next
\* makeGuess (in range) fails with NoActiveGame.
C7_NoActiveGame ==
  /\ [](/\ (last.op = "makeGuess" /\ InRange(last.a, last.b) /\ ~PreSession.active)
             => (last.err = "NoActiveGame" /\ last.paid = 0 /\ Untouched)
        /\ (Succeeded("makeGuess") /\ last.inner.op = "makeGuess"
              /\ InRange(last.hook.x, last.hook.y))
             => last.inner.err = "NoActiveGame")
  /\ [][(Succeeded("makeGuess") /\ ~ReenteredStart
           /\ last'.op = "makeGuess" /\ last'.sender = last.sender
           /\ InRange(last'.a, last'.b))
          => last'.err = "NoActiveGame"]_vars

\* A guess in range by a player without a session, after games were started,
\* while another player's session is active.
C7_Witness ==
  /\ last.op = "makeGuess" /\ InRange(last.a, last.b) /\ last.err = "NoActiveGame"
  /\ nonce > 0 /\ ~PreSession.active
  /\ \E p \in Players \ {last.sender} : games[p].active

\* C8: startGame with any value other than GAME_FEE fails with InvalidFee,
\* creates no session and leaves the balance as it was.
C8_InvalidFee ==
  (last.op = "startGame" /\ last.value # GAME_FEE)
    => (last.err = "InvalidFee" /\ Untouched)

\* More than the fee, by a player without a session, the ledger funded.
C8_Witness ==
  /\ last.op = "startGame" /\ last.value > GAME_FEE /\ last.err = "InvalidFee"
  /\ ~PreSession.active /\ balance >= FULL_REWARD

\* C9: after a successful startGame the caller's session is active, getActiveGame
\* returns true with two non-zero handles, the ones startGame returned and
\* emitted, and the balance is higher by exactly GAME_FEE.
C9_StartStoresHandles ==
  Succeeded("startGame") =>
    LET view == getActiveGame(Ledger, last.sender)
        ev == last.events[1]
    IN /\ games[last.sender].active
       /\ view.isActive
       /\ view.encryptedSuit # 0 /\ view.encryptedRank # 0
       /\ view.encryptedSuit = last.ret.encryptedSuit
       /\ view.encryptedRank = last.ret.encryptedRank
       /\ Len(last.events) = 1 /\ ev.name = "GameStarted" /\ ev.player = last.sender
       /\ ev.encryptedSuit = view.encryptedSuit /\ ev.encryptedRank = view.encryptedRank
       /\ balance = last.pre.balance + GAME_FEE

\* The scenario: the ledger held FULL_REWARD, the fee was GAME_FEE.
C9_Witness ==
  /\ Succeeded("startGame") /\ last.pre.balance = FULL_REWARD /\ last.value = GAME_FEE
  /\ getActiveGame(Ledger, last.sender).isActive

\* C10 as stated: after every successful makeGuess the caller's stored session
\* is the empty one (inactive, suit, rank and handles zero), and in every state
\* an inactive session holds no card data.
C10_SessionClearedAfterGuess ==
  /\ Succeeded("makeGuess") => games[last.sender] = EmptySession
  /\ \A p \in Accounts : ~games[p].active => games[p] = EmptySession

\* What remains of C10 when the caller did not start a game while it was paid.
C10_WithoutReentry ==
  /\ (Succeeded("makeGuess") /\ ~ReenteredStart) => games[last.sender] = EmptySession
  /\ \A p \in Accounts : ~games[p].active => games[p] = EmptySession

\* The account that is handed control by the transfer of the last transaction:
\* the caller of makeGuess, the recipient of withdraw.
Recipient == IF last.op = "withdraw" THEN last.a ELSE last.sender

\* A startGame call of p went through in the last transaction: the transaction
\* itself, or a call p made while it was handed control.
StartedBy(p) ==
  \/ Succeeded("startGame") /\ last.sender = p
  \/ last.err = "" /\ last.inner.op = "startGame" /\ last.inner.err = "" /\ Recipient = p

\* A makeGuess call of p went through in the last transaction.
GuessedBy(p) ==
  \/ Succeeded("makeGuess") /\ last.sender = p
  \/ last.err = "" /\ last.inner.op = "makeGuess" /\ last.inner.err = "" /\ Recipient = p

\* C11: a player's session changes only from inactive to active by a successful
\* startGame call of that player, and from active to inactive by a successful
\* makeGuess call of that player; a transaction in which the player made neither
\* call (withdraw, transferOwnership, a deposit, a view, another player's call,
\* a failed call) leaves the player's session as it was.  A startGame the player
\* makes while its makeGuess pays it comes after the session was cleared.
C11_SessionTransitions ==
  \A p \in Accounts :
    LET before == last.pre.games[p]
        after == games[p]
    IN /\ (~StartedBy(p) /\ ~GuessedBy(p)) => after = before
       /\ (StartedBy(p) /\ ~GuessedBy(p)) => (~before.active /\ after.active)
       /\ (GuessedBy(p) /\ ~StartedBy(p)) => (before.active /\ ~after.active)
       /\ (GuessedBy(p) /\ StartedBy(p))
            => (before.active /\ after.active /\ last.op = "makeGuess"
                /\ after.encryptedSuit # before.encryptedSuit)

\* A player resolved its session while the other player's session stayed active.
C11_Witness ==
  /\ Succeeded("makeGuess") /\ PreSession.active /\ ~games[last.sender].active
  /\ \E q \in Players \ {last.sender} : games[q].active /\ games[q] = last.pre.games[q]

\* C12: a call that fails leaves nothing behind: the ledger is what it was, no
\* event is recorded, nothing is paid.  When makeGuess fails with
\* InsufficientBankroll or TransferFailed, which is after it cleared the session
\* in storage, the caller's session is still active with the same suit, rank and
\* handles, and the balance is unchanged.
C12_FailedCallLeavesNothing ==
  /\ last.err # "" => (Untouched /\ last.events = <<>> /\ last.paid = 0)
  /\ (last.op = "makeGuess" /\ last.err \in {"InsufficientBankroll", "TransferFailed"})
       => /\ PreSession.active
          /\ games[last.sender] = PreSession
          /\ games[last.sender].active
          /\ balance = last.pre.balance

\* The caller refused the reward of a matching guess and still holds its session.
C12_Witness ==
  /\ last.op = "makeGuess" /\ last.err = "TransferFailed" /\ last.hook.kind = "reject"
  /\ games[last.sender].active /\ games[last.sender].suit = last.a
  /\ games[last.sender].encryptedSuit # 0
  /\ balance = last.pre.balance /\ balance > 0

\* The GuessEvaluated events of the last transaction.
GuessEvents == {i \in 1..Len(last.events) : last.events[i].name = "GuessEvaluated"}

\* C13: the session is cleared before the reward is transferred.  When a
\* successful makeGuess handed control to the caller, a makeGuess the caller
\* made then failed with NoActiveGame and a startGame it made then did not meet
\* an active session; the transaction evaluated one guess and paid one reward;
\* and the session it resolved is stored nowhere afterwards, every stored handle
\* being one already made, so that no later session is the resolved one again.
C13_ClearedBeforeTransfer ==
  /\ Succeeded("makeGuess") =>
       /\ last.inner.op = "makeGuess" => (last.inner.err = "NoActiveGame" /\ ~games[last.sender].active)
       /\ last.inner.op = "startGame" => last.inner.err # "ActiveGameExists"
       /\ Cardinality(GuessEvents) = 1
       /\ \A i \in GuessEvents :
            last.events[i].player = last.sender /\ last.events[i].reward = last.paid
       /\ last.inner.op \in {"none", "makeGuess"} => balance = last.pre.balance - last.paid
       /\ \A p \in Accounts : games[p].encryptedSuit # PreSession.encryptedSuit
  /\ \A p \in Accounts : games[p].encryptedSuit <= 2 * nonce /\ games[p].encryptedRank <= 2 * nonce
  /\ \A p, q \in Accounts :
       (p # q /\ games[p].active /\ games[q].active)
         => games[p].encryptedSuit # games[q].encryptedSuit

\* The caller guessed the card, and guessed again while it was paid FULL_REWARD.
C13_Witness ==
  /\ Succeeded("makeGuess") /\ last.paid = FULL_REWARD
  /\ last.inner.op = "makeGuess" /\ last.inner.err = "NoActiveGame"
  /\ balance = last.pre.balance - FULL_REWARD

\* The money the last transaction moved, by kind: the fees its startGame calls
\* took, the rewards its makeGuess calls paid, its plain deposit, its withdrawal.
RECURSIVE SumRewards(_)

SumRewards(events) ==
  IF events = <<>> THEN 0
  ELSE (IF Head(events).name = "GuessEvaluated" THEN Head(events).reward ELSE 0)
       + SumRewards(Tail(events))

FeesIn == GAME_FEE * Cardinality({i \in 1..Len(last.events) : last.events[i].name = "GameStarted"})
RewardsOut == SumRewards(last.events)
Deposited == IF Succeeded("receive") THEN last.value ELSE 0
Withdrawn == IF Succeeded("withdraw") THEN last.paid ELSE 0

\* C14 as stated: the balance is the sum of the fees taken by successful
\* startGame calls minus the sum of the rewards paid by successful makeGuess
\* calls.  Both sums are empty after the constructor and while no game was
\* started, and each transaction adds to them what it took and paid.
C14_FeesMinusRewards ==
  /\ nonce = 0 => balance = 0
  /\ balance - last.pre.balance = FeesIn - RewardsOut

\* C14 amended: the balance is the sum of the plain deposits and the fees taken
\* minus the sum of the rewards paid and the amounts withdrawn: it is 0 after
\* the constructor and each transaction changes it by exactly what it moved.
C14_BalanceOfAllMovements ==
  /\ last.op = "constructor" => balance = 0
  /\ balance - last.pre.balance = Deposited + FeesIn - RewardsOut - Withdrawn

\* A withdrawal from a ledger that took deposits and fees and paid a reward.
C14_Witness ==
  /\ Succeeded("withdraw") /\ last.paid > 0 /\ nonce > 0
  /\ balance = last.pre.balance - last.paid
  /\ balance # GAME_FEE * nonce

\* The reward the guess of the last transaction has earned, by the tiers of C2.
Due ==
  IF PreSession.suit = last.a /\ PreSession.rank = last.b THEN FULL_REWARD
  ELSE IF PreSession.rank = last.b THEN RANK_REWARD
  ELSE IF PreSession.suit = last.a THEN SUIT_REWARD
  ELSE 0

\* C15: the balance is never negative.  A makeGuess that has earned a positive
\* reward fails with InsufficientBankroll when the balance is below the reward;
\* otherwise it transfers the reward, and fails with TransferFailed if the
\* recipient refuses it.  A withdraw never transfers more than the balance.
C15_NeverOverdrawn ==
  /\ balance >= 0
  /\ (last.op = "makeGuess" /\ InRange(last.a, last.b) /\ PreSession.active /\ Due > 0)
       => IF last.pre.balance < Due
            THEN last.err = "InsufficientBankroll" /\ last.paid = 0 /\ Untouched
          ELSE IF last.hook.kind = "reject"
            THEN last.err = "TransferFailed" /\ last.paid = 0 /\ Untouched
          ELSE last.err = "" /\ last.paid = Due /\ last.paid <= last.pre.balance
  /\ Succeeded("withdraw") => (last.paid = last.b /\ last.paid <= last.pre.balance)

\* An exact guess on a ledger that holds money, but less than FULL_REWARD.
C15_Witness ==
  /\ last.op = "makeGuess" /\ PreSession.active /\ Due = FULL_REWARD
  /\ last.pre.balance > 0 /\ last.pre.balance < Due
  /\ last.err = "InsufficientBankroll" /\ balance = last.pre.balance

\* C16: withdraw and transferOwnership called by an account that is not the
\* owner fail with NotOwner whatever the arguments (zero recipient, zero new
\* owner, amount above the balance included) and change neither the owner nor
\* the balance, nor anything else.
C16_OnlyOwner ==
  (last.op \in {"withdraw", "transferOwnership"} /\ last.sender # last.pre.owner)
    => (last.err = "NotOwner" /\ last.paid = 0 /\ Untouched
        /\ owner = last.pre.owner /\ balance = last.pre.balance)

\* A withdraw to address(0) of more than the funded ledger holds, by an account
\* that is not the owner.
C16_Witness ==
  /\ last.op = "withdraw" /\ last.sender # last.pre.owner
  /\ last.a = ZeroAddress /\ last.b > last.pre.balance /\ last.pre.balance > 0
  /\ last.err = "NotOwner"

\* The recipient called back into the ledger while it was paid, and that call
\* went through.
Reentered == last.inner.op # "none" /\ last.inner.err = ""

\* C17 as stated: withdraw called by the owner fails with InvalidRecipient for
\* the zero recipient, otherwise with AmountExceedsBalance when the amount is
\* above the balance, otherwise transfers exactly the amount (TransferFailed if
\* the recipient refuses); on success the balance is lower by exactly the amount
\* and no session has changed.
C17_WithdrawByOwner ==
  (last.op = "withdraw" /\ last.sender = last.pre.owner)
    => IF last.a = ZeroAddress THEN last.err = "InvalidRecipient" /\ Untouched
       ELSE IF last.b > last.pre.balance THEN last.err = "AmountExceedsBalance" /\ Untouched
       ELSE IF last.hook.kind = "reject" THEN last.err = "TransferFailed" /\ Untouched
       ELSE /\ last.err = "" /\ last.paid = last.b
            /\ balance = last.pre.balance - last.b
            /\ games = last.pre.games

\* What remains of C17 when the recipient made no successful call back.
C17_WithoutReentry ==
  ~(Succeeded("withdraw") /\ Reentered) => C17_WithdrawByOwner

\* What transferOwnership called by the owner does, and who owns the ledger:
\* the zero address is refused with InvalidOwner and the owner stays; any other
\* address becomes the owner and nothing else changes; the owner is always one
\* account, never the zero address.
OwnerRule ==
  /\ owner \in Accounts /\ owner # ZeroAddress
  /\ (last.op = "transferOwnership" /\ last.sender = last.pre.owner)
       => IF last.a = ZeroAddress
            THEN last.err = "InvalidOwner" /\ Untouched /\ owner = last.pre.owner
            ELSE /\ last.err = "" /\ owner = last.a
                 /\ games = last.pre.games /\ balance = last.pre.balance
                 /\ nonce = last.pre.nonce

\* C18 as stated: OwnerRule, and after a successful transferOwnership the
\* previous owner's next withdraw or transferOwnership fails with NotOwner.
C18_OwnershipTransfer ==
  /\ []OwnerRule
  /\ [][(Succeeded("transferOwnership")
           /\ last'.op \in {"withdraw", "transferOwnership"}
           /\ last'.sender = last.pre.owner)
          => last'.err = "NotOwner"]_vars

\* C18 amended: OwnerRule, and after a successful transferOwnership to an
\* address other than the owner's own, the previous owner's next withdraw or
\* transferOwnership fails with NotOwner and changes nothing.
C18_OwnershipTransferToAnother ==
  /\ []OwnerRule
  /\ [][(Succeeded("transferOwnership") /\ owner # last.pre.owner
           /\ last'.op \in {"withdraw", "transferOwnership"}
           /\ last'.sender = last.pre.owner)
          => (last'.err = "NotOwner" /\ owner' = owner /\ balance' = balance)]_vars

\* The deployer gave the funded ledger to alice and then tried to withdraw.
C18_Witness ==
  /\ last.op = "withdraw" /\ last.sender = "deployer" /\ last.a # ZeroAddress
  /\ last.b <= last.pre.balance
  /\ last.err = "NotOwner" /\ owner = "alice" /\ last.pre.owner = "alice"

\* What getActiveGame answers for a player that has no active session.
NoGame == [isActive |-> FALSE, encryptedSuit |-> 0, encryptedRank |-> 0]

\* C19: getActiveGame writes nothing.  For a player without an active session
\* it returns false and two zero handles; for a player with one it returns true
\* and the two handles stored, which are those of the player's last successful
\* startGame: after each transaction the answer for a player is the handles of
\* the GameStarted event if the player started a game in it, the empty answer
\* if the player only resolved its session, and the answer of before otherwise.
C19_GetActiveGame ==
  /\ last.op = "getActiveGame" =>
       /\ last.err = "" /\ last.events = <<>> /\ last.paid = 0 /\ Untouched
       /\ IF games[last.a].active
            THEN /\ last.ret.isActive
                 /\ last.ret.encryptedSuit = games[last.a].encryptedSuit
                 /\ last.ret.encryptedRank = games[last.a].encryptedRank
                 /\ last.ret.encryptedSuit # 0 /\ last.ret.encryptedRank # 0
            ELSE last.ret = NoGame
  /\ \A p \in Accounts :
       LET view == getActiveGame(Ledger, p)
       IN /\ StartedBy(p) =>
               /\ view.isActive
               /\ \E i \in 1..Len(last.events) :
                    /\ last.events[i].name = "GameStarted" /\ last.events[i].player = p
                    /\ view.encryptedSuit = last.events[i].encryptedSuit
                    /\ view.encryptedRank = last.events[i].encryptedRank
          /\ (GuessedBy(p) /\ ~StartedBy(p)) => view = NoGame
          /\ (~GuessedBy(p) /\ ~StartedBy(p)) => view = getActiveGame(last.pre, p)

\* The view is asked for a player whose session is not the first one started.
C19_Witness ==
  /\ last.op = "getActiveGame" /\ last.ret.isActive
  /\ last.ret.encryptedSuit > 2 /\ last.ret.encryptedRank = last.ret.encryptedSuit + 1
  /\ games[last.a].active /\ balance = last.pre.balance

\* C20: the readers of the two handles a successful startGame of player p has
\* produced are exactly the ledger and p: right after the call (nested calls
\* included), for every stored session, and for every handle ever made; and no
\* transaction changes the readers of a handle that existed before it.
C20_ReadersOfHandles ==
  /\ \A i \in 1..Len(last.events) :
       last.events[i].name = "GameStarted" =>
         /\ Readers(acl, last.events[i].encryptedSuit) = {Self, last.events[i].player}
         /\ Readers(acl, last.events[i].encryptedRank) = {Self, last.events[i].player}
  /\ \A p \in Accounts :
       games[p].active =>
         /\ Readers(acl, games[p].encryptedSuit) = {Self, p}
         /\ Readers(acl, games[p].encryptedRank) = {Self, p}
  /\ \A h \in 1..(2 * nonce) : \E p \in Players : Readers(acl, h) = {Self, p}
  /\ \A h \in 1..(2 * last.pre.nonce) : Readers(acl, h) = Readers(last.pre.acl, h)
  /\ \A pair \in acl : pair[1] \in 1..(2 * nonce)

\* bob started a game after alice's first session: each handle has its own
\* player as its only reader besides the ledger.
C20_Witness ==
  /\ Succeeded("startGame") /\ last.sender = "bob"
  /\ Readers(acl, 1) = {Self, "alice"} /\ Readers(acl, 2) = {Self, "alice"}
  /\ Readers(acl, last.ret.encryptedSuit) = {Self, "bob"}
  /\ Readers(acl, last.ret.encryptedRank) = {Self, "bob"}

\* The GameStarted events of the last transaction.
StartEvents == {i \in 1..Len(last.events) : last.events[i].name = "GameStarted"}

\* C21: every successful startGame records one GameStarted event with the
\* caller and the two handles it stored; every successful makeGuess records one
\* GuessEvaluated event with the caller, the flags that are the equalities of
\* the guess against the stored card, and the reward that was transferred; a
\* call made by a paid recipient records its own event in the same way, and a
\* failed call, nested or not, records none.
C21_Events ==
  /\ last.err # "" => last.events = <<>>
  /\ (last.inner.op # "none" /\ last.inner.err # "") => last.inner.events = <<>>
  /\ Succeeded("startGame") =>
       /\ Len(last.events) = 1 /\ StartEvents = {1}
       /\ last.events[1].player = last.sender
       /\ last.events[1].encryptedSuit = games[last.sender].encryptedSuit
       /\ last.events[1].encryptedRank = games[last.sender].encryptedRank
       /\ last.events[1].encryptedSuit # 0 /\ last.events[1].encryptedRank # 0
  /\ Succeeded("makeGuess") =>
       /\ Cardinality(GuessEvents) = 1
       /\ Len(last.events) = 1 + Cardinality(StartEvents)
       /\ Cardinality(StartEvents) = (IF ReenteredStart THEN 1 ELSE 0)
       /\ \A i \in GuessEvents :
            /\ last.events[i].player = last.sender
            /\ last.events[i].suitMatched = (PreSession.suit = last.a)
            /\ last.events[i].rankMatched = (PreSession.rank = last.b)
            /\ last.events[i].reward = last.paid
            /\ last.events[i].reward = Due
       /\ \A i \in StartEvents :
            /\ last.events[i].player = last.sender
            /\ last.events[i].encryptedSuit = games[last.sender].encryptedSuit
            /\ last.events[i].encryptedRank = games[last.sender].encryptedRank
  /\ Succeeded("withdraw") =>
       /\ Len(last.events) = (IF Reentered THEN 1 ELSE 0)
       /\ \A i \in StartEvents :
            /\ last.events[i].player = last.a
            /\ last.events[i].encryptedSuit = games[last.a].encryptedSuit
            /\ last.events[i].encryptedRank = games[last.a].encryptedRank
       /\ \A i \in GuessEvents :
            /\ last.events[i].player = last.a
            /\ last.events[i].suitMatched = (last.pre.games[last.a].suit = last.hook.x)
            /\ last.events[i].rankMatched = (last.pre.games[last.a].rank = last.hook.y)
            /\ balance = last.pre.balance - last.paid - last.events[i].reward

\* A guess that matched the rank alone: flags (false, true), RANK_REWARD paid.
C21_Witness ==
  /\ Succeeded("makeGuess") /\ Len(last.events) = 1
  /\ last.events[1].name = "GuessEvaluated"
  /\ ~last.events[1].suitMatched /\ last.events[1].rankMatched
  /\ last.events[1].reward = RANK_REWARD /\ last.paid = RANK_REWARD

\* C22: for every seed the drawn card has its suit in 1..4 and its rank in
\* 1..13; so has the card of every active session; and the guess that names the
\* stored card is a valid one, which makeGuess takes as an exact match.
C22_CardInRange ==
  /\ \A seed \in AllSeeds :
       drawCard(seed).suitValue \in 1..4 /\ drawCard(seed).rankValue \in 1..13
  /\ \A p \in Accounts :
       games[p].active =>
         LET guessed == makeGuess(Ledger, p, games[p].suit, games[p].rank, Accept)
         IN /\ games[p].suit \in 1..4 /\ games[p].rank \in 1..13
            /\ <<games[p].suit, games[p].rank>> \in AllGuesses
            /\ guessed.err = "" /\ guessed.paid = FULL_REWARD
  /\ Succeeded("startGame") =>
       /\ games[last.sender].suit \in 1..4 /\ games[last.sender].rank \in 1..13

\* The seed whose two remainders are the largest drew the card (4, 13).
C22_Witness ==
  /\ Succeeded("startGame")
  /\ games[last.sender].active
  /\ games[last.sender].suit = 4 /\ games[last.sender].rank = 13

\* C28: the nonce grows by exactly 1 with every successful startGame call
\* (nested calls included) and is changed by nothing else: not by a failed
\* call, not by any other operation.  A successful startGame therefore draws
\* with a nonce that is larger than the one of every earlier draw.
C28_NonceCountsDraws ==
  /\ nonce = last.pre.nonce + Cardinality(StartEvents)
  /\ Succeeded("startGame") => nonce = last.pre.nonce + 1
  /\ (last.err # "" \/ last.op \in {"transferOwnership", "receive", "getActiveGame", "constructor"})
       => nonce = last.pre.nonce
  /\ (last.op \in {"makeGuess", "withdraw"} /\ last.err = "")
       => nonce = last.pre.nonce + (IF last.inner.op = "startGame" /\ last.inner.err = "" THEN 1 ELSE 0)
  /\ \A i \in StartEvents :
       /\ last.events[i].encryptedSuit = 2 * last.pre.nonce + 1
       /\ Readers(last.pre.acl, last.events[i].encryptedSuit) = {}

\* The second draw: it used nonce 1, the first one used nonce 0.
C28_Witness ==
  /\ Succeeded("startGame") /\ last.pre.nonce = 1 /\ nonce = 2
  /\ last.ret.encryptedSuit = 3

\* C29 as stated: while some session is active the balance is at least
\* FULL_REWARD, so a makeGuess that matches suit and rank of an active session
\* is never refused with InsufficientBankroll.
C29_BankrollCoversActive ==
  /\ (\E p \in Accounts : games[p].active) => balance >= FULL_REWARD
  /\ (last.op = "makeGuess" /\ PreSession.active /\ Due = FULL_REWARD)
       => last.err # "InsufficientBankroll"

\* What the bankroll check does give: the ledger holds FULL_REWARD at the end
\* of every successful startGame transaction.
C29_CoveredAtStart ==
  Succeeded("startGame") => balance >= FULL_REWARD

\* C23: the client never has more than one start or guess transaction
\* outstanding: while the startGame mutation is pending no guess can be
\* submitted, and while the makeGuess mutation is pending neither a start nor a
\* second guess can be submitted, whatever the clicks, refetches and
\* confirmations in between.
C23_OneOutstanding ==
  /\ isPending(ui.startGameMutation) => isGuessDisabled(ui)
  /\ isPending(ui.guessMutation) => isStartDisabled(ui) /\ isGuessDisabled(ui)
  /\ ~(isPending(ui.startGameMutation) /\ isPending(ui.guessMutation))

\* The half of C23 the code does keep: a pending guess disables both buttons.
C23_GuessPendingBlocks ==
  isPending(ui.guessMutation) => isStartDisabled(ui) /\ isGuessDisabled(ui)

\* A start and a guess transaction of the client are never both sent and not
\* yet mined (not kept either).
C23_NeverBothInFlight ==
  ~(ui.startGameMutation.stage = "sent" /\ ui.guessMutation.stage = "sent")

\* What C24 asks of a mutation that could not read its event: an error outcome
\* that is not the one of a reverted transaction.
UnreadableOutcome(u, mutation) ==
  /\ mutation.status = "error"
  /\ u.feedback.type = "error"
  /\ u.feedback.message # formatError(RevertedTransaction, ErrorNames)

\* C24: for both mutations, a confirmed transaction whose logs do not yield
\* the expected event ends in an error outcome, distinct from that of a
\* reverted transaction, and is never reported as a success.
C24_UnreadableIsError ==
  [][/\ (/\ ui.startGameMutation.stage = "mined" /\ ui.startGameMutation.ok
          /\ ui' = startSettled(ui, FALSE))
         => UnreadableOutcome(ui', ui'.startGameMutation)
     /\ (/\ ui.guessMutation.stage = "mined" /\ ui.guessMutation.ok
          /\ ui' = guessSettled(ui, FALSE))
         => UnreadableOutcome(ui', ui'.guessMutation)]_vars

\* The half of C24 the code does keep: the guess whose GuessEvaluated log is
\* not found ends in the error 'Unable to read guess result ...'.
C24_GuessUnreadableIsError ==
  [][(/\ ui.guessMutation.stage = "mined" /\ ui.guessMutation.ok
      /\ ui' = guessSettled(ui, FALSE))
     => /\ UnreadableOutcome(ui', ui'.guessMutation)
        /\ ui'.feedback.message = "Unable to read guess result from transaction logs."]_vars

\* A confirmed start whose GameStarted log was not found, reported as a success.
C24_StartUnreadableSuccess ==
  /\ ui.startGameMutation.status = "success"
  /\ ui.lastHandles = NoHandles
  /\ ui.feedback.type = "success"

\* A mutation finishes in this step.
Finishes(mutation, after) == mutation.stage # "none" /\ after.stage = "none"

\* C25: after every confirmed start or guess transaction the cached house
\* balance and active session are invalidated, and however the mutation
\* function ends the client does not go on with the active session it had
\* cached before the mutation: both queries are stale when a mutation finishes.
C25_InvalidatedWhenFinished ==
  [][(\/ Finishes(ui.startGameMutation, ui'.startGameMutation)
      \/ Finishes(ui.guessMutation, ui'.guessMutation))
     => {"active-game", "house-balance"} \subseteq ui'.stale]_vars

\* The part of C25 the code does keep: a mutation that finishes in onSuccess
\* has invalidated both queries.
C25_InvalidatedOnSuccess ==
  [][(\/ /\ Finishes(ui.startGameMutation, ui'.startGameMutation)
         /\ ui'.startGameMutation.status = "success"
      \/ /\ Finishes(ui.guessMutation, ui'.guessMutation)
         /\ ui'.guessMutation.status = "success")
     => {"active-game", "house-balance"} \subseteq ui'.stale]_vars

\* A guess confirmed on the ledger, its session closed there, the mutation
\* finished in error, and the cache still holding the session as active and
\* not marked stale.
C25_StaleSessionShown ==
  /\ ui.guessMutation.status = "error"
  /\ ui.guessMutation.ok
  /\ ui.activeGame
  /\ "active-game" \notin ui.stale
  /\ ~getActiveGame(Ledger, Player).isActive

\* The error of the ledger that an error payload names in one of the three
\* places the client reads, "" when it names none.
NamedIn(error) ==
  LET dataSources == <<error.data, error.errorData, error.infoErrorData>>
      named == {i \in 1..3 : dataSources[i][1] = "0x" /\ dataSources[i][2] \in ErrorNames}
  IN IF named = {} THEN ""
     ELSE dataSources[CHOOSE i \in named : \A j \in named : i <= j][2]

\* The message C26 asks for: the one of the named error, else the generic one
\* of a string, an Error or an object with a shortMessage.
Expected(error, message) ==
  IF error.kind \in {"Error", "object"} /\ NamedIn(error) # ""
    THEN message = messageMap[NamedIn(error)]
  ELSE IF error.kind \in {"string", "Error"} THEN error.text # "" => message = error.text
  ELSE IF error.kind = "object" /\ error.shortMessage # "" THEN message = error.shortMessage
  ELSE TRUE

\* C26: when the error payload of a failed mutation names one of the ten
\* errors of the ledger the feedback is the message written for that error;
\* otherwise it is the generic message of the error (the string, Error.message
\* or shortMessage).  Both copies of the component are asked.
C26_ErrorFeedback ==
  \A mutation \in {ui.startGameMutation, ui.guessMutation} :
    mutation.status = "error"
      => /\ Expected(mutation.error, ui.feedback.message)
         /\ Expected(mutation.error, formatErrorGame(mutation.error))

\* The part of C26 that holds: the component that looks the error up in the
\* interface shows the message of the named error.
C26_ErrorFeedbackWithInterface ==
  \A mutation \in {ui.startGameMutation, ui.guessMutation} :
    mutation.status = "error" => Expected(mutation.error, ui.feedback.message)

\* A mutation failed with InsufficientBankroll in its payload, which the
\* component without the interface reports as 'execution reverted'.
C26_NamedErrorShownGeneric ==
  \E mutation \in {ui.startGameMutation, ui.guessMutation} :
    /\ mutation.status = "error"
    /\ NamedIn(mutation.error) = "InsufficientBankroll"
    /\ ui.feedback.message = messageMap["InsufficientBankroll"]
    /\ formatErrorGame(mutation.error) = "execution reverted"

\* C27: the client never sends a transaction again on its own: a click leads
\* to at most one transaction, and a mutation that failed or whose transaction
\* reverted sends nothing until the user clicks again.
C27_NoResubmission ==
  \A mutation \in {ui.startGameMutation, ui.guessMutation} :
    /\ mutation.sent <= 1
    /\ mutation.status # "pending" => mutation.stage = "none"

\* A mutation that sent its transaction and then failed (the transaction
\* reverted, or its logs could not be read).
C27_Witness ==
  \E mutation \in {ui.startGameMutation, ui.guessMutation} :
    mutation.status = "error" /\ mutation.sent = 1

\* The cached terms and house balance are those of the ledger.
FreshCache == hasTermsData(ui) /\ hasBalanceData(ui) /\ ui.houseBalance = houseBalance(Ledger)

\* The ledger half of C30, on the call just made.
C30_LedgerThreshold ==
  (last.op = "startGame" /\ last.value = GAME_FEE /\ ~PreSession.active)
    => (last.err = "" <=> last.pre.balance + GAME_FEE >= FULL_REWARD)

\* C30: startGame with the correct fee and no active session succeeds exactly
\* when the balance before the call plus GAME_FEE is at least FULL_REWARD, and
\* the client gates on the same threshold: with fresh cached terms and balance
\* it reports the bankroll as insufficient exactly when the ledger would fail
\* the player's startGame with InsufficientBankroll.
C30_SameThreshold ==
  /\ C30_LedgerThreshold
  /\ (FreshCache /\ ~games[Player].active)
       => (isBankrollInsufficient(ui)
             <=> startGame(Ledger, Player, gameFee(ui), 0).err = "InsufficientBankroll")

\* The ledger has just refused a start for its bankroll, and the client, with
\* a fresh cache, reports the bankroll as insufficient.
C30_Witness ==
  /\ last.op = "startGame" /\ last.value = GAME_FEE /\ last.err = "InsufficientBankroll"
  /\ FreshCache /\ ~games[Player].active
  /\ isBankrollInsufficient(ui)
  /\ isStartDisabled(ui)

\* C31: the guards of startGame are evaluated in the order fee, active
\* session, bankroll: a call fails with InvalidFee if its fee is wrong, else
\* with ActiveGameExists if the caller has an active session, and with
\* InsufficientBankroll only when both earlier checks pass.
C31_GuardOrder ==
  last.op = "startGame" =>
    last.err = IF last.value # GAME_FEE THEN "InvalidFee"
               ELSE IF PreSession.active THEN "ActiveGameExists"
               ELSE IF last.pre.balance + last.value < FULL_REWARD THEN "InsufficientBankroll"
               ELSE ""

\* Calls that break several guards at once: all three (InvalidFee is the
\* answer), and the last two (ActiveGameExists is).
C31_WitnessAllThree ==
  /\ last.op = "startGame" /\ last.value # GAME_FEE /\ PreSession.active
  /\ last.pre.balance + last.value < FULL_REWARD
  /\ last.err = "InvalidFee"

C31_Witness ==
  /\ last.op = "startGame" /\ last.value = GAME_FEE /\ PreSession.active
  /\ last.pre.balance + last.value < FULL_REWARD
  /\ last.err = "ActiveGameExists"

\* C32: a player can always close an active session.  In every reachable
\* state, for every player with an active session, every guess in range that
\* matches neither the suit nor the rank succeeds, pays nothing and leaves the
\* session inactive, whatever the balance and whatever the caller does with
\* transfers; and such a guess exists.  The call just made obeys the same.
C32_CanAlwaysClose ==
  /\ \A p \in Players :
       games[p].active =>
         LET losing == {g \in AllGuesses : g[1] # games[p].suit /\ g[2] # games[p].rank}
         IN /\ losing # {}
            /\ \A g \in losing, hook \in Hooks :
                 LET r == makeGuess(Ledger, p, g[1], g[2], hook)
                 IN r.err = "" /\ r.paid = 0 /\ ~r.st.games[p].active
  /\ (last.op = "makeGuess" /\ InRange(last.a, last.b) /\ PreSession.active
        /\ PreSession.suit # last.a /\ PreSession.rank # last.b)
       => (last.err = "" /\ ~games[last.sender].active)

\* A session closed by a losing guess on a ledger that held nothing, by a
\* caller that would have refused a transfer as well.
C32_Witness ==
  /\ Succeeded("makeGuess") /\ PreSession.active
  /\ PreSession.suit # last.a /\ PreSession.rank # last.b
  /\ last.pre.balance = 0
  /\ ~games[last.sender].active
  /\ makeGuess(last.pre, last.sender, last.a, last.b,
               [kind |-> "reject", x |-> 0, y |-> 0, z |-> 0]).err = ""

\* The ledger before the last transaction with every session but p's wiped.
Alone(p) ==
  [last.pre EXCEPT !.games = [q \in Accounts |-> IF q = p THEN last.pre.games[q]
                                                 ELSE EmptySession]]

\* C33: sessions are isolated per player.  A startGame or makeGuess of p (the
\* transaction, or the call p makes back while it is paid) leaves the session
\* of every other account as it was; its outcome is the one it would have had
\* with no other session in the ledger, so it reads none; the guess is
\* evaluated against p's own card and its event and reward are p's; and a
\* guess of a caller without a session fails whoever else has one.
C33_Isolation ==
  /\ last.op \in {"startGame", "makeGuess", "withdraw"}
       => \A q \in Accounts \ {Recipient} : games[q] = last.pre.games[q]
  /\ last.op = "startGame"
       => startGame(Alone(last.sender), last.sender, last.value, 0).err = last.err
  /\ last.op = "makeGuess"
       => LET r == makeGuess(Alone(last.sender), last.sender, last.a, last.b, last.hook)
          IN r.err = last.err /\ r.paid = last.paid /\ r.events = last.events
  /\ Succeeded("makeGuess")
       => /\ \A i \in 1..Len(last.events) : last.events[i].player = last.sender
          /\ last.paid = Due
  /\ (last.op = "makeGuess" /\ InRange(last.a, last.b) /\ ~PreSession.active)
       => last.err = "NoActiveGame"

\* A guess paid to its caller while another player holds an active session on
\* the same card, which stays as it was.
C33_Witness ==
  /\ Succeeded("makeGuess") /\ last.paid = FULL_REWARD
  /\ \E q \in Players \ {last.sender} :
       /\ last.pre.games[q].active
       /\ last.pre.games[q].suit = PreSession.suit /\ last.pre.games[q].rank = PreSession.rank
       /\ games[q] = last.pre.games[q]

\* C34: when the caller re-enters the ledger while it receives its reward,
\* the caller's session is inactive once the outer makeGuess has completed
\* successfully.
C34_InactiveAfterReenteredGuess ==
  (Succeeded("makeGuess") /\ last.hook.kind \in {"makeGuess", "startGame"})
    => ~games[last.sender].active

\* What the code does keep: a caller that re-enters makeGuess finds no session
\* to guess on, and its session is inactive at the end.
C34_ReenteredGuessFindsNothing ==
  (Succeeded("makeGuess") /\ last.hook.kind = "makeGuess")
    => (last.inner.err = "NoActiveGame" /\ ~games[last.sender].active)

\* A successful makeGuess in which the caller started a game while it was
\* paid, and holds an active session at the end.
C34_ActiveAfterGuess ==
  /\ Succeeded("makeGuess") /\ ReenteredStart
  /\ games[last.sender].active
  /\ balance = last.pre.balance - last.paid + GAME_FEE

\* The successful startGame calls of the last transaction (its own, and the
\* one a paid recipient made), and the rewards its successful makeGuess calls
\* paid.
Starts ==
  (IF Succeeded("startGame") THEN 1 ELSE 0)
  + (IF last.err = "" /\ last.inner.op = "startGame" /\ last.inner.err = "" THEN 1 ELSE 0)

PaidRewards ==
  (IF Succeeded("makeGuess") THEN last.paid ELSE 0)
  + (IF last.err = "" /\ last.inner.op = "makeGuess" /\ last.inner.err = ""
       THEN SumRewards(last.inner.events) ELSE 0)

\* C35: value is conserved over all operations.  The ledger holds nothing
\* after the constructor, and every transaction changes the balance by the
\* plain deposit it received, plus GAME_FEE for each successful startGame
\* call, minus the rewards paid by its successful makeGuess calls, minus the
\* amount paid by a successful withdraw; the nonce counts the successful
\* startGame calls; a failed transaction changes nothing.  The balance of every
\* reachable state is therefore the sum of those terms over the transactions
\* before it.
C35_ValueConserved ==
  /\ last.op = "constructor" => (balance = 0 /\ nonce = 0)
  /\ balance = last.pre.balance + Deposited + GAME_FEE * Starts - PaidRewards - Withdrawn
  /\ nonce = last.pre.nonce + Starts
  /\ last.err # "" => (balance = last.pre.balance /\ nonce = last.pre.nonce)

\* A withdrawal whose recipient resolved its session while it was paid: the
\* balance is lower by the amount and by the reward.
C35_Witness ==
  /\ Succeeded("withdraw") /\ last.paid > 0
  /\ last.inner.op = "makeGuess" /\ last.inner.err = ""
  /\ SumRewards(last.inner.events) > 0
  /\ balance = last.pre.balance - last.paid - SumRewards(last.inner.events)

\* The GameStarted and GuessEvaluated events of p in the last transaction, in
\* the order they were recorded.
IsEventOf(e, p) == e.name \in {"GameStarted", "GuessEvaluated"} /\ e.player = p

RECURSIVE EventsOf(_, _)
EventsOf(events, p) ==
  IF events = <<>> THEN <<>>
  ELSE (IF IsEventOf(Head(events), p) THEN <<Head(events).name>> ELSE <<>>)
       \o EventsOf(Tail(events), p)

\* The events of p go on alternating through the last transaction, given that
\* before it p's session was active exactly when p's last event was
\* GameStarted; and the same is true after it.
Alternates(p) ==
  LET names == EventsOf(last.events, p)
      startNext(i) == (i % 2 = 1) <=> ~last.pre.games[p].active
  IN /\ \A i \in 1..Len(names) :
          names[i] = IF startNext(i) THEN "GameStarted" ELSE "GuessEvaluated"
     /\ games[p].active <=> IF names = <<>> THEN last.pre.games[p].active
                            ELSE names[Len(names)] = "GameStarted"

\* C36: in the event log the events of each player alternate, beginning with
\* GameStarted, and a player's session is active exactly when the player's
\* last event is GameStarted.  No player has an event or a session after the
\* constructor, and every transaction goes on with the alternation.
C36_EventsAlternate ==
  /\ last.op = "constructor" => \A p \in Accounts : ~games[p].active
  /\ \A p \in Accounts : Alternates(p)

\* What remains of C36 when no caller of makeGuess started a game while it
\* was paid.
C36_WithoutReentry ==
  ~(last.op = "makeGuess" /\ ReenteredStart) => C36_EventsAlternate

\* A transaction that recorded GameStarted and then GuessEvaluated for a
\* player whose session was active before it and is active after it.
C36_StartedTwice ==
  /\ Succeeded("makeGuess") /\ PreSession.active
  /\ EventsOf(last.events, last.sender) = <<"GameStarted", "GuessEvaluated">>
  /\ games[last.sender].active

\* In every GuessEvaluated event of the last transaction the reward is
\* positive exactly when one of the two flags is set.
C37_RewardIffFlag ==
  \A i \in GuessEvents :
    last.events[i].reward > 0 <=> (last.events[i].suitMatched \/ last.events[i].rankMatched)

\* The GuessEvaluated event the guess mutation reads from its receipt.
ResultRead == ui.guessMutation.logs[FirstLog(ui.guessMutation.logs, "GuessEvaluated")]

\* C37: in every GuessEvaluated event the reward is positive exactly when
\* suitMatched or rankMatched is true; so the client never shows the 'Close
\* call' feedback, and when its guess mutation succeeds the feedback is
\* 'Victory' if and only if a flag is set in the event it read and 'No
\* matches' if and only if none is.
C37_FeedbackFollowsFlags ==
  /\ [](C37_RewardIffFlag /\ ui.feedback.message # "Close call!")
  /\ [][(ui.guessMutation.stage = "mined" /\ ui'.guessMutation.status = "success")
         => /\ ui'.feedback.message = "Victory!"
                 <=> (ResultRead.suitMatched \/ ResultRead.rankMatched)
            /\ ui'.feedback.message = "No matches. Try another combination."
                 <=> ~(ResultRead.suitMatched \/ ResultRead.rankMatched)]_vars

\* The client shows 'Victory' for a guess that matched the suit alone and was
\* paid SUIT_REWARD.
C37_Witness ==
  /\ ui.guessMutation.status = "success"
  /\ ResultRead.suitMatched /\ ~ResultRead.rankMatched /\ ResultRead.reward = SUIT_REWARD
  /\ ui.feedback.message = "Victory!"

====
